---- MODULE Spec2Model ----
(***************************************************************************)
(* Model of frontend/src/components/TenderDashboard.jsx: a React function  *)
(* component with three state hooks (tenderId, analysis, loading), one     *)
(* async handler (analyzeTender) with two suspension points (await fetch,  *)
(* await response.json()) and a render function (the returned JSX).        *)
(*                                                                         *)
(* JavaScript values that may be undefined are modelled as sequences of    *)
(* length at most one: <<>> is undefined (or null for the analysis hook),  *)
(* <<v>> is the value v.                                                   *)
(***************************************************************************)
EXTENDS Integers, Sequences, FiniteSets, TLC

VARIABLES tenderId, analysis, loading, requests, completed, alerts, logs, view

vars == <<tenderId, analysis, loading, requests, completed, alerts, logs, view>>

\* Number of analyzeTender invocations explored.
MaxRequests == 2

Undefined == <<>>

\* useState(null): the analysis hook before any successful request.
Absent == <<>>

\* Texts the input element can hold (e.target.value).
InputTexts == {"", "T-1001", "T-2002"}

AlertMessage == "Failed to analyze tender. Please try again."

LogPrefix == "Error analyzing tender:"

----------------------------------------------------------------------------
(* Response bodies the endpoint may send.                                   *)

WellFormedA ==
    [kind |-> "object",
     title |-> <<"Road Maintenance">>,
     price_range |-> [kind |-> "object", min |-> <<50000>>, max |-> <<75000>>],
     confidence |-> <<82>>,
     requirements |-> << <<"ISO 9001">> >>,
     compliance |-> <<91>>]

WellFormedB ==
    [kind |-> "object",
     title |-> <<"Bridge Repair">>,
     price_range |-> [kind |-> "object", min |-> <<1200>>, max |-> <<1234567>>],
     confidence |-> <<67>>,
     requirements |-> << <<"Min. 3 years experience", "ISO 9001 certification">> >>,
     compliance |-> <<40>>]

\* A JSON object without the title member.
NoTitle == [WellFormedA EXCEPT !.title = Undefined]

\* A JSON object without the price_range member.
NoPriceRange ==
    [WellFormedA EXCEPT !.price_range =
        [kind |-> "undefined", min |-> Undefined, max |-> Undefined]]

\* A JSON object whose price_range is a number instead of an object.
PriceRangeNumber ==
    [WellFormedA EXCEPT !.price_range =
        [kind |-> "number", min |-> Undefined, max |-> Undefined]]

\* A JSON object whose price_range has no min member.
NoMin == [WellFormedB EXCEPT !.price_range.min = Undefined]

\* A JSON object without the requirements member.
NoRequirements == [WellFormedB EXCEPT !.requirements = Undefined]

\* The JSON text "null".
NullBody ==
    [kind |-> "null",
     title |-> Undefined,
     price_range |-> [kind |-> "undefined", min |-> Undefined, max |-> Undefined],
     confidence |-> Undefined,
     requirements |-> Undefined,
     compliance |-> Undefined]

\* A body that is not JSON: response.json() rejects.
InvalidJson == [NullBody EXCEPT !.kind = "invalid"]

Bodies ==
    {WellFormedA, WellFormedB, NoTitle, NoPriceRange, PriceRangeNumber,
     NoMin, NoRequirements, NullBody, InvalidJson}

\* Bodies that come with a non-success status.
ErrorBodies == {WellFormedB, InvalidJson}

\* The shape the component expects of a success response.
WellFormed(data) ==
    /\ data.kind = "object"
    /\ data.title # Undefined
    /\ data.price_range.kind = "object"
    /\ data.price_range.min # Undefined
    /\ data.price_range.max # Undefined
    /\ data.confidence # Undefined
    /\ data.requirements # Undefined
    /\ data.compliance # Undefined

----------------------------------------------------------------------------
(* Pure parts of the component.                                             *)

\* JavaScript truthiness of a string: only the empty string is falsy.
Truthy(s) == s # ""

\* The button disabled only when both conditions hold.
DisabledWhenBoth(l, t) == l /\ ~Truthy(t)

\* The button disabled on an empty input only.
DisabledOnEmptyOnly(l, t) == ~Truthy(t)

\* disabled={loading || !tenderId}
Disabled(l, t) == l \/ ~Truthy(t)

\* {loading ? "Analyzing..." : "Analyze"}
Label(l) == IF l THEN "Analyzing..." ELSE "Analyze"

\* JSON.stringify({ tender_id: tenderId, tender_url: null })
Payload(t) == [tender_id |-> t, tender_url |-> "null"]

\* Reading a member of data.price_range: a member of an object, undefined on
\* a primitive. (On undefined or null the read throws, see MappingThrows.)
Member(pr, f) == IF pr.kind = "object" THEN pr[f] ELSE Undefined

\* The argument of setAnalysis cannot be evaluated: data is null, or
\* data.price_range is undefined or null, and a member of it is read.
MappingThrows(data) ==
    \/ data.kind = "null"
    \/ data.price_range.kind \in {"undefined", "null"}

\* The object literal with min and max exchanged.
MappingSwapped(data) ==
    [title |-> data.title,
     priceRange |-> [min |-> Member(data.price_range, "max"),
                     max |-> Member(data.price_range, "min")],
     confidence |-> data.confidence,
     requirements |-> data.requirements,
     compliance |-> data.compliance]

\* The object literal handed to setAnalysis.
Mapping(data) ==
    [title |-> data.title,
     priceRange |-> [min |-> Member(data.price_range, "min"),
                     max |-> Member(data.price_range, "max")],
     confidence |-> data.confidence,
     requirements |-> data.requirements,
     compliance |-> data.compliance]

\* Number.prototype.toLocaleString: the decimal digits in groups of three,
\* most significant group first (the separator is the locale's).
RECURSIVE ToLocaleString(_)
ToLocaleString(n) ==
    IF n < 1000 THEN <<n>>
    ELSE Append(ToLocaleString(n \div 1000), n % 1000)

\* requirements.map((req, index) => <li key={index}>...{req}</li>)
RequirementItems(reqs) ==
    [i \in 1..Len(reqs) |-> [key |-> i - 1, text |-> reqs[i]]]

\* Rendering the panels throws: toLocaleString or map is called on undefined.
RenderThrows(a) ==
    /\ a # Absent
    /\ \/ a[1].priceRange.min = Undefined
       \/ a[1].priceRange.max = Undefined
       \/ a[1].requirements = Undefined

\* {analysis && ( ...three panels... )}
Panels(a) ==
    IF a = Absent \/ RenderThrows(a) THEN <<>>
    ELSE << [price |-> [min |-> ToLocaleString(a[1].priceRange.min[1]),
                        max |-> ToLocaleString(a[1].priceRange.max[1])],
             confidence |-> a[1].confidence,
             compliance |-> a[1].compliance,
             requirements |-> RequirementItems(a[1].requirements[1])] >>

\* The JSX returned by the component, as a function of the three hooks.
\* status is "error" when evaluating the panels throws: no element is then
\* on screen, so Edit and Click require status "ok". The hooks keep the
\* values the handler gave them.
Render(t, a, l) ==
    [status |-> IF RenderThrows(a) THEN "error" ELSE "ok",
     input |-> t,
     disabled |-> Disabled(l, t),
     label |-> Label(l),
     panels |-> Panels(a)]

----------------------------------------------------------------------------
(* analyzeTender, split at its two awaits.                                  *)

\* Exit paths of the handler.
Failures == {"network", "http", "parse", "mapping"}

\* The exit path taken once response.json() has settled.
JsonOutcome(data) ==
    IF data.kind = "invalid" THEN "parse"
    ELSE IF MappingThrows(data) THEN "mapping"
    ELSE "success"

\* The status check left out.
StatusIgnored(resp) == FALSE

\* if (!response.ok) throw new Error("Analysis failed")
StatusThrows(resp) == ~resp.ok

\* The error object the catch clause receives.
ErrorOf(o) ==
    CASE o = "network" -> "TypeError: Failed to fetch"
      [] o = "http" -> "Error: Analysis failed"
      [] o = "parse" -> "SyntaxError"
      [] o = "mapping" -> "TypeError"

\* The catch clause also calling setAnalysis(null).
AnalysisResetOnFailure(o, resp, a) ==
    IF o = "success" THEN <<Mapping(resp[1].body)>> ELSE Absent

\* A mapping exception leaving null behind.
AnalysisResetOnMappingError(o, resp, a) ==
    IF o = "success" THEN <<Mapping(resp[1].body)>>
    ELSE IF o = "mapping" THEN Absent ELSE a

\* Only the first result kept.
AnalysisFirstWins(o, resp, a) ==
    IF o = "success" /\ a = Absent THEN <<Mapping(resp[1].body)>> ELSE a

\* setAnalysis runs on the success path only; its argument is the mapping of
\* the parsed body.
AnalysisAfter(o, resp, a) ==
    IF o = "success" THEN <<Mapping(resp[1].body)>> ELSE a

\* catch: alert(...)
AlertsAfter(o, al) == IF o \in Failures THEN Append(al, AlertMessage) ELSE al

\* catch: console.error(...)
LogsAfter(o, lg) ==
    IF o \in Failures
    THEN Append(lg, [prefix |-> LogPrefix, error |-> ErrorOf(o)])
    ELSE lg

\* setLoading(false) at the end of the try block instead of in finally.
LoadingClearedInTryOnly(o, l) == IF o = "success" THEN FALSE ELSE l

\* setLoading(false) in the catch clause instead of in finally.
LoadingClearedInCatchOnly(o, l) == IF o \in Failures THEN FALSE ELSE l

\* finally: setLoading(false)
LoadingAfter(o, l) == FALSE

InFlight == {i \in 1..Len(requests) : requests[i].pc # "done"}

Init ==
    /\ tenderId = ""
    /\ analysis = Absent
    /\ loading = FALSE
    /\ requests = <<>>
    /\ completed = <<>>
    /\ alerts = <<>>
    /\ logs = <<>>
    /\ view = Render("", Absent, FALSE)

\* onChange={(e) => setTenderId(e.target.value)}
Edit(v) ==
    /\ view.status = "ok"
    /\ tenderId' = v
    /\ view' = Render(v, analysis, loading)
    /\ UNCHANGED <<analysis, loading, requests, completed, alerts, logs>>

\* analyzeTender up to its first await: setLoading(true), fetch issued with
\* the tenderId of the render the handler belongs to.
Activate ==
    /\ Len(requests) < MaxRequests
    /\ loading' = TRUE
    /\ requests' = Append(requests,
            [payload |-> Payload(tenderId), pc |-> "fetch",
             response |-> <<>>, outcome |-> "pending"])
    /\ view' = Render(tenderId, analysis, TRUE)
    /\ UNCHANGED <<tenderId, analysis, completed, alerts, logs>>

\* onClick={analyzeTender} on the rendered button.
Click ==
    /\ view.status = "ok"
    /\ ~view.disabled
    /\ Activate

\* analyzeTender called although the button is disabled.
Invoke ==
    /\ view.status = "ok"
    /\ view.disabled
    /\ Activate

\* The rest of the handler once exit path o is known: setAnalysis or the
\* catch clause, then the finally clause, then the re-render. resp is the
\* response received, <<>> if there was none.
Settle(i, o, resp) ==
    /\ analysis' = AnalysisAfter(o, resp, analysis)
    /\ alerts' = AlertsAfter(o, alerts)
    /\ logs' = LogsAfter(o, logs)
    /\ loading' = LoadingAfter(o, loading)
    /\ requests' = [requests EXCEPT ![i].pc = "done", ![i].outcome = o,
                                    ![i].response = resp]
    /\ completed' = Append(completed, i)
    /\ view' = Render(tenderId, analysis', loading')
    /\ UNCHANGED tenderId

\* await fetch(...) rejects: the request could not be sent or answered.
FetchRejected(i) ==
    /\ i \in 1..Len(requests)
    /\ requests[i].pc = "fetch"
    /\ Settle(i, "network", <<>>)

\* await fetch(...) resolves with a response; a non-success status throws,
\* otherwise the handler awaits response.json().
FetchResolved(i) ==
    /\ i \in 1..Len(requests)
    /\ requests[i].pc = "fetch"
    /\ \E resp \in [ok : {TRUE}, body : Bodies] \cup [ok : {FALSE}, body : ErrorBodies] :
          IF StatusThrows(resp)
          THEN Settle(i, "http", <<resp>>)
          ELSE /\ requests' = [requests EXCEPT ![i].pc = "json",
                                               ![i].response = <<resp>>]
               /\ UNCHANGED <<tenderId, analysis, loading, completed,
                              alerts, logs, view>>

\* await response.json() settles: it rejects, or the data is mapped.
JsonSettled(i) ==
    /\ i \in 1..Len(requests)
    /\ requests[i].pc = "json"
    /\ Settle(i, JsonOutcome(requests[i].response[1].body), requests[i].response)

Next ==
    \/ \E v \in InputTexts : Edit(v)
    \/ Click
    \/ \E i \in 1..MaxRequests : FetchRejected(i)
    \/ \E i \in 1..MaxRequests : FetchResolved(i)
    \/ \E i \in 1..MaxRequests : JsonSettled(i)

Spec == Init /\ [][Next]_vars

NextBypass == Next \/ Invoke

SpecBypass == Init /\ [][NextBypass]_vars

\* The transport settles every request it was given.
Fairness ==
    \A i \in 1..MaxRequests :
        /\ WF_vars(FetchRejected(i) \/ FetchResolved(i))
        /\ WF_vars(JsonSettled(i))

SpecFair == Spec /\ Fairness

TypeOK ==
    /\ tenderId \in InputTexts
    /\ loading \in BOOLEAN
    /\ Len(requests) <= MaxRequests
    /\ Len(analysis) <= 1
    /\ \A i \in 1..Len(requests) :
          requests[i].pc \in {"fetch", "json", "done"}

----------------------------------------------------------------------------
(* Vocabulary of the properties.                                            *)

\* Request i leaves the handler in this step.
Completes(i) ==
    /\ i \in 1..Len(requests)
    /\ requests[i].pc # "done"
    /\ requests'[i].pc = "done"

\* analyzeTender is entered in this step.
Activated == Len(requests') > Len(requests)

Done(i) == i \in 1..Len(requests) /\ requests[i].pc = "done"

\* The body of the response request i received.
BodyOf(r) == r.response[1].body

\* What went wrong with a request, read off the response alone.
NetworkFailure(r) == r.response = <<>>

StatusFailure(r) == r.response # <<>> /\ ~r.response[1].ok

ParseFailure(r) ==
    r.response # <<>> /\ r.response[1].ok /\ BodyOf(r).kind = "invalid"

MappingFailure(r) ==
    /\ r.response # <<>>
    /\ r.response[1].ok
    /\ \/ BodyOf(r).kind = "null"
       \/ BodyOf(r).kind = "object" /\ BodyOf(r).price_range.kind \in {"undefined", "null"}

RequestFailed(r) ==
    NetworkFailure(r) \/ StatusFailure(r) \/ ParseFailure(r) \/ MappingFailure(r)

\* The renaming of the fields, written out.
Renamed(data) ==
    [title |-> data.title,
     priceRange |-> [min |-> data.price_range.min, max |-> data.price_range.max],
     confidence |-> data.confidence,
     requirements |-> data.requirements,
     compliance |-> data.compliance]

\* The number a sequence of three-digit groups denotes.
RECURSIVE GroupsValue(_)
GroupsValue(g) ==
    IF Len(g) = 0 THEN 0
    ELSE GroupsValue(SubSeq(g, 1, Len(g) - 1)) * 1000 + g[Len(g)]

\* The texts of the rendered list, top to bottom.
RenderedTexts(items) == [k \in 1..Len(items) |-> items[k].text]

FullyPresent(a) ==
    /\ a.title # Undefined
    /\ a.priceRange.min # Undefined
    /\ a.priceRange.max # Undefined
    /\ a.confidence # Undefined
    /\ a.compliance # Undefined
    /\ a.requirements # Undefined

----------------------------------------------------------------------------
(* C1: in the state reached when a request completes, loading is false,    *)
(* whichever exit path the handler took (success, non-success status,      *)
(* network failure, parse failure, exception while mapping).               *)
C1_LoadingClearedOnCompletion ==
    [][\A i \in 1..MaxRequests :
          Completes(i) =>
              /\ requests'[i].outcome \in Failures \cup {"success"}
              /\ ~loading']_vars

C1_Witness ==
    \E i \in 1..Len(requests) :
        /\ Done(i)
        /\ MappingFailure(requests[i])
        /\ requests[i].outcome = "mapping"
        /\ ~loading

(* C2: a request that fails by a non-success status, a network failure or  *)
(* a parse failure leaves the stored analysis exactly as it was.           *)
C2_FailureKeepsAnalysis ==
    [][\A i \in 1..MaxRequests :
          (/\ Completes(i)
           /\ \/ NetworkFailure(requests'[i])
              \/ StatusFailure(requests'[i])
              \/ ParseFailure(requests'[i]))
          => analysis' = analysis]_vars

C2_Witness ==
    /\ Len(requests) >= 2
    /\ Done(1) /\ Done(2)
    /\ completed[1] = 1
    /\ requests[1].outcome = "success"
    /\ StatusFailure(requests[2])
    /\ analysis = <<Renamed(BodyOf(requests[1]))>>

(* C3: the button is disabled exactly when tenderId is empty or loading is *)
(* true, and a click on it activates analyzeTender only when tenderId is   *)
(* non-empty and loading is false.                                         *)
C3_ButtonDisabledExactly ==
    /\ [](view.disabled <=> (tenderId = "" \/ loading))
    /\ [][Activated => (tenderId # "" /\ ~loading)]_vars

C3_Witness ==
    /\ Len(requests) >= 1
    /\ Done(1)
    /\ view.status = "ok"
    /\ ~view.disabled
    /\ tenderId # ""
    /\ ~loading

(* C4: with activations through the button only, at most one request is in *)
(* flight in every reachable state.                                        *)
C4_AtMostOneInFlight == Cardinality(InFlight) <= 1

C4_Witness ==
    /\ Len(requests) >= 2
    /\ Done(1)
    /\ InFlight = {2}
    /\ loading

(* C5: after a well-formed success response to a request with a non-empty  *)
(* tender id, the stored analysis has the response's title, price range,   *)
(* confidence, compliance and requirements under the new names, and the    *)
(* rendered panels show these values, the requirements in received order.  *)
C5_MappedFieldsEqual ==
    [][\A i \in 1..MaxRequests :
          (/\ Completes(i)
           /\ requests'[i].response # <<>>
           /\ requests'[i].response[1].ok
           /\ WellFormed(BodyOf(requests'[i]))
           /\ requests'[i].payload.tender_id # "")
          => /\ analysis' = <<Renamed(BodyOf(requests'[i]))>>
             /\ view'.status = "ok"
             /\ view'.panels # <<>>
             /\ RenderedTexts(view'.panels[1].requirements)
                    = BodyOf(requests'[i]).requirements[1]
             /\ GroupsValue(view'.panels[1].price.min)
                    = BodyOf(requests'[i]).price_range.min[1]
             /\ GroupsValue(view'.panels[1].price.max)
                    = BodyOf(requests'[i]).price_range.max[1]
             /\ view'.panels[1].confidence = BodyOf(requests'[i]).confidence
             /\ view'.panels[1].compliance = BodyOf(requests'[i]).compliance]_vars

C5_Witness ==
    \E i \in 1..Len(requests) :
        /\ Done(i)
        /\ requests[i].outcome = "success"
        /\ BodyOf(requests[i]) = WellFormedB
        /\ analysis = <<Renamed(WellFormedB)>>
        /\ view.panels # <<>>
        /\ Len(view.panels[1].requirements) = 2

(* C6: the stored analysis is either absent or has all six fields defined, *)
(* whatever the response bodies were.                                      *)
C6_AnalysisAtomic == analysis = Absent \/ FullyPresent(analysis[1])

(* C7: every failed request yields exactly one notification, the same for  *)
(* every kind of failure, and one log entry; a successful request yields   *)
(* none; a response with a non-success status is a failure whatever its    *)
(* body, and its body is not mapped into the stored analysis.              *)
C7_OneNotificationPerFailure ==
    /\ [](/\ Len(alerts) = Cardinality({i \in 1..Len(requests) :
                                Done(i) /\ RequestFailed(requests[i])})
          /\ Len(logs) = Len(alerts)
          /\ \A k \in 1..Len(alerts) : alerts[k] = AlertMessage)
    /\ [][\A i \in 1..MaxRequests :
             Completes(i) =>
                 /\ RequestFailed(requests'[i]) =>
                        /\ Len(alerts') = Len(alerts) + 1
                        /\ Len(logs') = Len(logs) + 1
                 /\ ~RequestFailed(requests'[i]) =>
                        /\ alerts' = alerts
                        /\ logs' = logs
                 /\ StatusFailure(requests'[i]) => analysis' = analysis]_vars

C7_Witness ==
    /\ Len(requests) >= 2
    /\ Done(1) /\ Done(2)
    /\ StatusFailure(requests[1])
    /\ BodyOf(requests[1]) = WellFormedB
    /\ ~RequestFailed(requests[2])
    /\ Len(alerts) = 1
    /\ Len(logs) = 1

(* C8: the stored analysis is absent initially and changes only in the     *)
(* step that completes a successful request, where it becomes the mapping  *)
(* of that response as a whole; it never returns to absent once present.   *)
C8_AnalysisChangesOnlyOnSuccess ==
    /\ analysis = Absent
    /\ [][/\ analysis' # analysis =>
                \E i \in 1..MaxRequests :
                    /\ Completes(i)
                    /\ ~RequestFailed(requests'[i])
                    /\ analysis' = <<Mapping(BodyOf(requests'[i]))>>
          /\ \A i \in 1..MaxRequests :
                (Completes(i) /\ ~RequestFailed(requests'[i]))
                    => analysis' = <<Mapping(BodyOf(requests'[i]))>>
          /\ analysis # Absent => analysis' # Absent]_vars

C8_Witness ==
    /\ Len(requests) >= 2
    /\ Done(1) /\ Done(2)
    /\ ~RequestFailed(requests[1])
    /\ ~RequestFailed(requests[2])
    /\ BodyOf(requests[1]) # BodyOf(requests[2])
    /\ analysis = <<Mapping(BodyOf(requests[2]))>>

\* Positions in the completion order of the requests that succeeded.
SuccessPositions ==
    {k \in 1..Len(completed) : ~RequestFailed(requests[completed[k]])}

\* The mapping of the success that completed last, absent if there is none.
LastToFinish ==
    IF SuccessPositions = {} THEN Absent
    ELSE LET k == CHOOSE m \in SuccessPositions :
                      \A n \in SuccessPositions : n <= m
         IN <<Mapping(BodyOf(requests[completed[k]]))>>

(* C9: when analyzeTender is entered while a request is in flight, no      *)
(* request is cancelled, and the stored analysis is the mapping of the     *)
(* successful response that completed last, whatever the start order.      *)
C9_LastToFinishWins ==
    /\ [](analysis = LastToFinish)
    /\ [][/\ \A i \in 1..Len(requests) :
                /\ requests'[i].payload = requests[i].payload
                /\ requests[i].pc = "fetch" => requests'[i].pc \in {"fetch", "json", "done"}
                /\ requests[i].pc = "json" => requests'[i].pc \in {"json", "done"}
          /\ Activated => SubSeq(requests', 1, Len(requests)) = requests]_vars

C9_Witness ==
    /\ Len(completed) >= 2
    /\ completed[1] = 2
    /\ completed[2] = 1
    /\ ~RequestFailed(requests[1])
    /\ ~RequestFailed(requests[2])
    /\ BodyOf(requests[1]) # BodyOf(requests[2])
    /\ analysis = <<Mapping(BodyOf(requests[1]))>>

(* C10: if the transport settles every request, every state in which       *)
(* loading is true is followed by a state in which loading is false.       *)
C10_LoadingEventuallyCleared == loading ~> ~loading

C10_Witness ==
    /\ Len(requests) >= 1
    /\ Done(1)
    /\ NetworkFailure(requests[1])
    /\ ~loading

====
